---- MODULE Spec2Model ----
(***************************************************************************)
(* Berth and hardstand assignment of a shipyard (prueba-astican).          *)
(* The pipeline  leer_datos -> preprocesar_datos -> Optimizador.optimize   *)
(* is modelled as a state machine: one action per stage, the period table  *)
(* as a sequence of records (the rows of the DataFrame, in row order), the *)
(* MILP as the set of 0/1 assignments that satisfy the constraints built   *)
(* by Optimizador._definir_restricciones.                                  *)
(***************************************************************************)
EXTENDS Integers, Sequences, FiniteSets, TLC

(* ------------------------------ bounds -------------------------------- *)
\* last day of the planning horizon the inputs reach (days 0..MaxDay)
MaxDay == 2
\* number of days before the epoch the inputs reach (days -PastDays..-1)
PastDays == 2

(* ------------------------------ the yard ------------------------------ *)
SinUbicacion == "SIN UBICACION ASIGNADA"
FLOTE == "FLOTE"
VARADA == "VARADA"

\* muelles.index, in row order; the MANIOBRA quays are dropped by leer_datos
MuellesIndex == <<"SUR", "NORTE">>
MuellesLongitud == [SUR |-> 3, NORTE |-> 1]
\* calles.index, in row order
CallesIndex == <<"CALLE1">>
CallesLongitud == [CALLE1 |-> 3]
CallesAncho == [CALLE1 |-> 1]
SyncroliftDims == [longitud |-> 2, ancho |-> 1]
\* a quay of the job file that leer_datos leaves out of muelles
AreaManiobra == "MANIOBRA 1"

\* ubicaciones = pd.concat([muelles, calles])
UbicacionesIndex == MuellesIndex \o CallesIndex
UbicacionesLongitud == [l \in {"SUR", "NORTE", "CALLE1"} |->
                          IF l = "CALLE1" THEN CallesLongitud[l] ELSE MuellesLongitud[l]]

(* ------------------------------ helpers ------------------------------- *)
Range(s) == {s[i] : i \in 1..Len(s)}

Min2(a, b) == IF a <= b THEN a ELSE b

RECURSIVE SumSet(_, _)
\* sum of f(e) over the elements e of S (f an operator name is not first
\* class, so f is a function here)
SumSet(S, f) == IF S = {} THEN 0
                ELSE LET e == CHOOSE e \in S : TRUE
                     IN f[e] + SumSet(S \ {e}, f)

RECURSIVE SumSeq(_)
SumSeq(s) == IF s = <<>> THEN 0 ELSE Head(s) + SumSeq(Tail(s))

\* list(range(a, b + 1))
RangoDias(a, b) == [i \in 1..(IF b >= a THEN b - a + 1 ELSE 0) |-> a + i - 1]

MaxSeq(s) == CHOOSE v \in Range(s) : \A w \in Range(s) : w <= v
MinSeq(s) == CHOOSE v \in Range(s) : \A w \in Range(s) : v <= w

\* the order of the strings used as proyecto_id
OrdenProyecto(p) == CASE p = "P1" -> 1 [] p = "P2" -> 2 [] OTHER -> 3

(* ----------------------- procesarDatos: Normalizer -------------------- *)
\* the key of sort_values(['proyecto_id', 'fecha_inicio'])
Antes(r1, r2) ==
    \/ OrdenProyecto(r1.proyecto_id) < OrdenProyecto(r2.proyecto_id)
    \/ /\ r1.proyecto_id = r2.proyecto_id
       /\ r1.fecha_inicio < r2.fecha_inicio

RECURSIVE Insertar(_, _)
\* r goes after every row that is not strictly after it: the sort is stable
Insertar(s, r) == IF s = <<>> THEN <<r>>
                  ELSE IF Antes(r, Head(s)) THEN <<r>> \o s
                  ELSE <<Head(s)>> \o Insertar(Tail(s), r)

RECURSIVE Ordenar(_)
Ordenar(s) == IF s = <<>> THEN <<>>
              ELSE Insertar(Ordenar(SubSeq(s, 1, Len(s) - 1)), s[Len(s)])

Fila(p, ini, fin, tipo, area) ==
    [proyecto_id |-> p, fecha_inicio |-> ini, fecha_fin |-> fin,
     tipo_desc |-> tipo, nombre_area |-> area]

\* cambio: the row opens a new group (the shifted values of the first row
\* of a project are NaN, which differ from everything)
Cambio(prev, r) ==
    \/ prev.proyecto_id # r.proyecto_id
    \/ r.tipo_desc # prev.tipo_desc
    \/ r.nombre_area # prev.nombre_area
    \/ r.fecha_inicio # prev.fecha_fin + 1

RECURSIVE Agrupar(_, _, _)
\* acc: the groups closed so far; g: the open group as <<first row, last row>>
Agrupar(s, acc, g) ==
    IF s = <<>> THEN acc \o <<Fila(g[1].proyecto_id, g[1].fecha_inicio, g[2].fecha_fin,
                                   g[1].tipo_desc, g[1].nombre_area)>>
    ELSE IF Cambio(g[2], Head(s))
         THEN Agrupar(Tail(s),
                      acc \o <<Fila(g[1].proyecto_id, g[1].fecha_inicio, g[2].fecha_fin,
                                    g[1].tipo_desc, g[1].nombre_area)>>,
                      <<Head(s), Head(s)>>)
         ELSE Agrupar(Tail(s), acc, <<g[1], Head(s)>>)

unificar_periodos_consecutivos(t) ==
    LET s == Ordenar(t)
    IN IF s = <<>> THEN <<>> ELSE Agrupar(Tail(s), <<>>, <<Head(s), Head(s)>>)

Cruza(r) == r.fecha_inicio < 0 /\ r.fecha_fin >= 0
NoCruza(r) == ~Cruza(r)

\* separar_periodos_cruzan without periodos_posteriores
separar_sin_posteriores(t) ==
    LET cruzan == SelectSeq(t, Cruza)
        anteriores == [i \in 1..Len(cruzan) |-> [cruzan[i] EXCEPT !.fecha_fin = -1]]
        restantes == SelectSeq(t, NoCruza)
    IN anteriores \o restantes

separar_periodos_cruzan(t) ==
    LET cruzan == SelectSeq(t, Cruza)
        anteriores == [i \in 1..Len(cruzan) |-> [cruzan[i] EXCEPT !.fecha_fin = -1]]
        posteriores == [i \in 1..Len(cruzan) |-> [cruzan[i] EXCEPT !.fecha_inicio = 0]]
        restantes == SelectSeq(t, NoCruza)
    IN anteriores \o posteriores \o restantes

\* Indexar with the count over the whole table in the place of the count by project
IndexarSinAgrupar(t) ==
    LET s == Ordenar(t)
    IN [i \in 1..Len(s) |->
          [proyecto_id |-> s[i].proyecto_id,
           periodo_id |-> i - 1,
           fecha_inicio |-> s[i].fecha_inicio, fecha_fin |-> s[i].fecha_fin,
           tipo_desc |-> s[i].tipo_desc, nombre_area |-> s[i].nombre_area]]

\* sort, then periodo_id = groupby('proyecto_id').cumcount()
Indexar(t) ==
    LET s == Ordenar(t)
    IN [i \in 1..Len(s) |->
          [proyecto_id |-> s[i].proyecto_id,
           periodo_id |-> Cardinality({j \in 1..(i - 1) : s[j].proyecto_id = s[i].proyecto_id}),
           fecha_inicio |-> s[i].fecha_inicio, fecha_fin |-> s[i].fecha_fin,
           tipo_desc |-> s[i].tipo_desc, nombre_area |-> s[i].nombre_area]]

\* ForzarSinUbicacion without the test of fecha_inicio
ForzarSinUbicacionSiempre(t, proy) ==
    [i \in 1..Len(t) |->
        IF proy[t[i].proyecto_id].proyecto_a_optimizar
        THEN [t[i] EXCEPT !.nombre_area = SinUbicacion]
        ELSE t[i]]

\* lines 114-116: the periods of the projects to optimize that start on day
\* 0 or later lose their area
ForzarSinUbicacion(t, proy) ==
    [i \in 1..Len(t) |->
        IF proy[t[i].proyecto_id].proyecto_a_optimizar /\ t[i].fecha_inicio >= 0
        THEN [t[i] EXCEPT !.nombre_area = SinUbicacion]
        ELSE t[i]]

\* lines 101-116 of preprocesar_datos on a day-indexed table
Normalizar(t, proy) ==
    ForzarSinUbicacion(Indexar(separar_periodos_cruzan(unificar_periodos_consecutivos(t))), proy)

(* ------------------- procesarDatos: Feasibility Expander -------------- *)
\* UbicacionesDe without the test of the syncrolift dimensions
UbicacionesSinSyncrolift(r, proy) ==
    LET eslora == proy[r.proyecto_id].eslora
        manga == proy[r.proyecto_id].manga
        CabeMuelle(m) == MuellesLongitud[m] >= eslora
        CabeCalle(c) == eslora <= CallesLongitud[c] /\ manga <= CallesAncho[c]
    IN IF r.nombre_area # SinUbicacion THEN <<r.nombre_area>>
       ELSE IF r.tipo_desc = FLOTE THEN SelectSeq(MuellesIndex, CabeMuelle)
       ELSE SelectSeq(CallesIndex, CabeCalle)

\* the lambda of lines 122-128
UbicacionesDe(r, proy) ==
    LET eslora == proy[r.proyecto_id].eslora
        manga == proy[r.proyecto_id].manga
        CabeMuelle(m) == MuellesLongitud[m] >= eslora
        CabeCalle(c) == eslora <= CallesLongitud[c] /\ manga <= CallesAncho[c]
    IN IF r.nombre_area # SinUbicacion THEN <<r.nombre_area>>
       ELSE IF r.tipo_desc = FLOTE THEN SelectSeq(MuellesIndex, CabeMuelle)
       ELSE IF /\ r.tipo_desc = VARADA
               /\ eslora <= SyncroliftDims.longitud
               /\ manga <= SyncroliftDims.ancho
            THEN SelectSeq(CallesIndex, CabeCalle)
            ELSE <<>>

\* the lambda of line 130
DiasDe(r) == IF r.fecha_inicio >= 0 THEN RangoDias(r.fecha_inicio, r.fecha_fin) ELSE <<>>

\* the columns ubicaciones, dias and duracion
Expandir(t, proy) ==
    [i \in 1..Len(t) |->
        [proyecto_id |-> t[i].proyecto_id, periodo_id |-> t[i].periodo_id,
         fecha_inicio |-> t[i].fecha_inicio, fecha_fin |-> t[i].fecha_fin,
         tipo_desc |-> t[i].tipo_desc, nombre_area |-> t[i].nombre_area,
         ubicaciones |-> UbicacionesDe(t[i], proy),
         dias |-> DiasDe(t[i]),
         duracion |-> Len(DiasDe(t[i]))]]

\* dias = list(range(0, periodos['fecha_fin'].max() + 1))
ListaDias(t) == RangoDias(0, MaxSeq([i \in 1..Len(t) |-> t[i].fecha_fin]))

\* lines 134-136: facturacion / (ultimo_dia - primer_dia + 1), kept as a fraction
FacturacionDiaria(t, proy) ==
    [p \in DOMAIN proy |->
        LET delp == SelectSeq(t, LAMBDA r : r.proyecto_id = p)
        IN [num |-> proy[p].facturacion,
            den |-> MaxSeq([i \in 1..Len(delp) |-> delp[i].fecha_fin])
                    - MinSeq([i \in 1..Len(delp) |-> delp[i].fecha_inicio]) + 1]]

\* lines 140-144: a config value replaces the default when it is truthy and differs
SobrescribirParams(old, new) ==
    [param \in DOMAIN old |->
        LET change == IF param \in DOMAIN new THEN new[param] ELSE old[param]
        IN IF change # 0 /\ change # old[param] THEN change ELSE old[param]]

\* lines 98-99: (fecha - fecha_inicial).dt.days
ADias(t, fecha_inicial) ==
    [i \in 1..Len(t) |->
        [t[i] EXCEPT !.fecha_inicio = t[i].fecha_inicio - fecha_inicial,
                     !.fecha_fin = t[i].fecha_fin - fecha_inicial]]

(* ------------------------ optimizador: dictionaries ------------------- *)
\* the index of a row: id_proyecto_reparacion = proyecto_id + '_' + periodo_id
Id(r) == <<r.proyecto_id, r.periodo_id>>

SetAOptimizar(proy) == {p \in DOMAIN proy : proy[p].proyecto_a_optimizar}
SetNoOptimizar(proy) == {p \in DOMAIN proy : ~proy[p].proyecto_a_optimizar}

\* the rows of t whose project is in S, in row order
FilasDe(t, S) == SelectSeq(t, LAMBDA r : r.proyecto_id \in S)

\* crear_diccionario_longitudes_confirmados without the min of line 388
longitudes_confirmados_sin_tope(t, proy) ==
    LET no == FilasDe(t, SetNoOptimizar(proy))
        claves == UNION {{<<d, no[i].nombre_area>> : d \in Range(no[i].dias)} : i \in 1..Len(no)}
        suma(k) == SumSeq([i \in 1..Len(no) |->
                      IF no[i].nombre_area = k[2] /\ k[1] \in Range(no[i].dias)
                      THEN proy[no[i].proyecto_id].eslora ELSE 0])
    IN [k \in claves |-> suma(k)]

\* lines 384-390: eslora summed by (dia, nombre_area) over the exploded dias
\* of the confirmed projects, capped by the length of the location
crear_diccionario_longitudes_confirmados(t, proy) ==
    LET no == FilasDe(t, SetNoOptimizar(proy))
        claves == UNION {{<<d, no[i].nombre_area>> : d \in Range(no[i].dias)} : i \in 1..Len(no)}
        suma(k) == SumSeq([i \in 1..Len(no) |->
                      IF no[i].nombre_area = k[2] /\ k[1] \in Range(no[i].dias)
                      THEN proy[no[i].proyecto_id].eslora ELSE 0])
    IN [k \in claves |->
          \* min(metros_ocupados, max_longitud.get(ubi, float("inf")))
          IF k[2] \in Range(UbicacionesIndex)
          THEN Min2(suma(k), UbicacionesLongitud[k[2]])
          ELSE suma(k)]

\* .get(k, 0) of a dict
Get(dic, k) == IF k \in DOMAIN dic THEN dic[k] ELSE 0

\* crear_diccionario_usos_syncrolift_confirmados with one use on the first
\* and on the last day of every period in VARADA
usos_syncrolift_por_periodo(max_usos, t, proy) ==
    LET no == Ordenar(FilasDe(t, SetNoOptimizar(proy)))
        EsVarada(i) == no[i].tipo_desc = VARADA
        usos(d) == Cardinality({i \in 1..Len(no) : EsVarada(i) /\ no[i].fecha_inicio = d})
                   + Cardinality({i \in 1..Len(no) : EsVarada(i) /\ no[i].fecha_fin = d})
        claves == {no[i].fecha_inicio : i \in {j \in 1..Len(no) : EsVarada(j)}}
                  \cup {no[i].fecha_fin : i \in {j \in 1..Len(no) : EsVarada(j)}}
    IN [d \in claves |-> Min2(usos(d), max_usos)]

\* lines 412-417: the launch and lift days of the confirmed projects
crear_diccionario_usos_syncrolift_confirmados(max_usos, t, proy) ==
    LET no == Ordenar(FilasDe(t, SetNoOptimizar(proy)))
        MismoProyecto(i, j) == j \in 1..Len(no) /\ no[j].proyecto_id = no[i].proyecto_id
        EsVarada(i) == no[i].tipo_desc = VARADA
        Entra(i) == EsVarada(i) /\ ~(MismoProyecto(i, i - 1) /\ EsVarada(i - 1))
        Sale(i) == EsVarada(i) /\ ~(MismoProyecto(i, i + 1) /\ EsVarada(i + 1))
        usos(d) == Cardinality({i \in 1..Len(no) : Entra(i) /\ no[i].fecha_inicio = d})
                   + Cardinality({i \in 1..Len(no) : Sale(i) /\ no[i].fecha_fin = d})
        claves == {no[i].fecha_inicio : i \in {j \in 1..Len(no) : Entra(j)}}
                  \cup {no[i].fecha_fin : i \in {j \in 1..Len(no) : Sale(j)}}
    IN [d \in claves |-> Min2(usos(d), max_usos)]

\* crear_diccionario_movimientos_anteriores over all the periods of the
\* projects to optimize, those that start on day 0 or later included
movimientos_anteriores_y_posteriores(max_mov, t, proy) ==
    LET ant == Ordenar(SelectSeq(t, LAMBDA r : r.proyecto_id \in SetAOptimizar(proy)))
        Movimiento(i) == /\ i > 1
                         /\ ant[i - 1].proyecto_id = ant[i].proyecto_id
                         /\ ant[i].tipo_desc = ant[i - 1].tipo_desc
                         /\ ant[i].nombre_area # ant[i - 1].nombre_area
                         /\ ant[i].fecha_inicio = ant[i - 1].fecha_fin + 1
    IN [p \in {ant[i].proyecto_id : i \in 1..Len(ant)} |->
          Min2(Cardinality({i \in 1..Len(ant) : ant[i].proyecto_id = p /\ Movimiento(i)}),
               max_mov)]

\* lines 439-446: movements between the periods that start before day 0
crear_diccionario_movimientos_anteriores(max_mov, t, proy) ==
    LET ant == Ordenar(SelectSeq(t, LAMBDA r : r.fecha_inicio < 0
                                               /\ r.proyecto_id \in SetAOptimizar(proy)))
        Movimiento(i) == /\ i > 1
                         /\ ant[i - 1].proyecto_id = ant[i].proyecto_id
                         /\ ant[i].tipo_desc = ant[i - 1].tipo_desc
                         /\ ant[i].nombre_area # ant[i - 1].nombre_area
                         /\ ant[i].fecha_inicio = ant[i - 1].fecha_fin + 1
    IN [p \in {ant[i].proyecto_id : i \in 1..Len(ant)} |->
          Min2(Cardinality({i \in 1..Len(ant) : ant[i].proyecto_id = p /\ Movimiento(i)}),
               max_mov)]

\* lines 466-480: the periods that start on day 0 right after a period of
\* the same type that ends on day -1, with the area of that period
crear_diccionario_periodos_ubicaciones_cruzan(t, proy) ==
    LET opt == Ordenar(FilasDe(t, SetAOptimizar(proy)))
        Posterior(i) == /\ opt[i].fecha_inicio = 0
                        /\ i > 1
                        /\ opt[i - 1].proyecto_id = opt[i].proyecto_id
                        /\ opt[i].tipo_desc = opt[i - 1].tipo_desc
                        /\ opt[i - 1].fecha_fin = -1
        idx(k) == CHOOSE i \in 1..Len(opt) : Posterior(i) /\ Id(opt[i]) = k
    IN [k \in {Id(opt[i]) : i \in {j \in 1..Len(opt) : Posterior(j)}} |->
          opt[idx(k) - 1].nombre_area]

(* ------------------------------- state -------------------------------- *)
VARIABLES
    pc,                  \* the stage the run has completed
    entrada,             \* the period table leer_datos returned (dates)
    config,              \* optimizador_params_new: the config of the job file
    proyectos,           \* proyecto_id -> eslora, manga, facturacion, proyecto_a_optimizar, ...
    periodos,            \* the period table, in row order
    dias,                \* the days of the horizon
    optimizador_params,  \* the parameters in force
    dicc,                \* the four dictionaries of _definir_restricciones
    estado,              \* LpStatus[prob.status]
    sol,                 \* varValue of the variables x, y, m, s
    resultados,          \* the rows of the result table
    error                \* the exception that ended the run, if any

vars == <<pc, entrada, config, proyectos, periodos, dias, optimizador_params,
          dicc, estado, sol, resultados, error>>

\* query_info.from_date, as a day number
FechaInicial == 100

Resto(s) == IF s = <<>> THEN <<>> ELSE Tail(s)

\* periodos[periodos["proyecto_id"].isin(set_a_optimizar)]
FilasAOptimizar == FilasDe(periodos, SetAOptimizar(proyectos))
\* ... if len(periodos.loc[p_k, 'ubicaciones']) > 1
FilasMovibles == SelectSeq(FilasAOptimizar, LAMBDA r : Len(r.ubicaciones) > 1)

(* --------------------- optimizador: _definir_variables ---------------- *)
XKeys == UNION {{<<Id(r), d, loc>> : d \in Range(r.dias), loc \in Range(r.ubicaciones)} :
                   r \in Range(FilasAOptimizar)}
YKeys == SetAOptimizar(proyectos)
MKeys == UNION {{<<Id(r), d>> : d \in Range(r.dias)} : r \in Range(FilasMovibles)}
SKeys == UNION {{<<r.proyecto_id, d>> : d \in {r.fecha_inicio, r.fecha_fin}} :
                   r \in {q \in Range(FilasAOptimizar) : q.tipo_desc = VARADA}}

(* ------------------ optimizador: _definir_funcion_objetivo ------------ *)
\* Recortar without the clip
SinRecortar(fd, minimo) == fd

\* line 86: facturacion_diaria.clip(lower=MIN_FACTURACION_DIARIA) on a fraction;
\* a division by zero (inf, or nan) is left as it is
Recortar(fd, minimo) ==
    IF \/ fd.den > 0 /\ fd.num < minimo * fd.den
       \/ fd.den < 0 /\ fd.num > minimo * fd.den
    THEN [num |-> minimo, den |-> 1]
    ELSE fd

RECURSIVE ProdSet(_, _)
ProdSet(S, f) == IF S = {} THEN 1
                 ELSE LET e == CHOOSE e \in S : TRUE
                      IN f[e] * ProdSet(S \ {e}, f)

\* the common denominator of the daily billings of the projects to optimize
Escala ==
    LET ps == {p \in SetAOptimizar(proyectos) : proyectos[p].facturacion_diaria.den > 0}
    IN ProdSet(ps, [p \in ps |-> proyectos[p].facturacion_diaria.den])

\* facturacion_diaria of project p times Escala; a project whose span is not
\* positive has no day and so no x variable
TarifaEscalada(p) ==
    LET fd == proyectos[p].facturacion_diaria
    IN IF fd.den > 0 THEN fd.num * (Escala \div fd.den) ELSE 0

\* Objetivo without the billing term
ObjetivoSoloPenalizacion(a) ==
    0 - optimizador_params.MOVED_PROJECTS_PENALTY_PER_MOVEMENT * Escala
        * SumSet(MKeys, [k \in MKeys |-> a.m[k]])

\* lines 88-89: sum of x * facturacion_diaria minus the penalty times the
\* sum of m, times Escala
Objetivo(a) ==
    SumSet(XKeys, [k \in XKeys |-> a.x[k] * TarifaEscalada(k[1][1])])
    - optimizador_params.MOVED_PROJECTS_PENALTY_PER_MOVEMENT * Escala
      * SumSet(MKeys, [k \in MKeys |-> a.m[k]])

(* -------------------- optimizador: _definir_restricciones ------------- *)
\* Asignacion with <= in the place of ==
AsignacionComoMaximo(x, y) ==
    \A r \in Range(FilasAOptimizar) : \A d \in Range(r.dias) :
        SumSeq([i \in 1..Len(r.ubicaciones) |-> x[<<Id(r), d, r.ubicaciones[i]>>]])
            <= y[r.proyecto_id]

\* Asignacion_{p_k}_{d}: lpSum(x[p_k, d, loc] for loc in ubicaciones) == y[p]
Asignacion(x, y) ==
    \A r \in Range(FilasAOptimizar) : \A d \in Range(r.dias) :
        SumSeq([i \in 1..Len(r.ubicaciones) |-> x[<<Id(r), d, r.ubicaciones[i]>>]])
            = y[r.proyecto_id]

\* Longitud without the metres of the confirmed projects
LongitudSinConfirmados(x) ==
    \A loc \in Range(UbicacionesIndex) : \A d \in Range(dias) :
        SumSeq([i \in 1..Len(periodos) |->
                   Get(x, <<Id(periodos[i]), d, loc>>)
                   * proyectos[periodos[i].proyecto_id].eslora])
        <= UbicacionesLongitud[loc]

\* Longitud_{d}_{loc}
Longitud(x) ==
    \A loc \in Range(UbicacionesIndex) : \A d \in Range(dias) :
        SumSeq([i \in 1..Len(periodos) |->
                   Get(x, <<Id(periodos[i]), d, loc>>)
                   * proyectos[periodos[i].proyecto_id].eslora])
          + Get(dicc.longitudes_confirmados, <<d, loc>>)
        <= UbicacionesLongitud[loc]

\* Movimiento_{p_k}_{d}_{loc}_mayor
MovimientoMayor(x, m) ==
    \A r \in Range(FilasMovibles) : \A d \in Range(Resto(r.dias)) :
        \A loc \in Range(r.ubicaciones) :
            m[<<Id(r), d>>] >= x[<<Id(r), d, loc>>] - x[<<Id(r), d - 1, loc>>]

\* Movimiento_{p_k}_{d}_{loc}_menor
MovimientoMenor(x, m) ==
    \A r \in Range(FilasMovibles) : \A d \in Range(Resto(r.dias)) :
        \A loc \in Range(r.ubicaciones) :
            m[<<Id(r), d>>] <= 2 - x[<<Id(r), d, loc>>] - x[<<Id(r), d - 1, loc>>]

\* Movimiento_dia_0 that charges nothing when the previous area is not a
\* candidate location of the period
MovimientoDia0SoloCandidatas(x, m) ==
    \A p_1 \in DOMAIN dicc.posicion_anterior :
        m[<<p_1, 0>>] >= 1 - (IF <<p_1, 0, dicc.posicion_anterior[p_1]>> \in XKeys
                              THEN x[<<p_1, 0, dicc.posicion_anterior[p_1]>>] ELSE 1)

\* Movimiento_dia_0_{p_1}
MovimientoDia0(x, m) ==
    \A p_1 \in DOMAIN dicc.posicion_anterior :
        m[<<p_1, 0>>] >= 1 - (IF <<p_1, 0, dicc.posicion_anterior[p_1]>> \in XKeys
                              THEN x[<<p_1, 0, dicc.posicion_anterior[p_1]>>] ELSE 0)

\* Max_n_movimentos without movimientos_anteriores
MaxMovimientosSinAnteriores(m) ==
    \A p \in SetAOptimizar(proyectos) :
        SumSeq([i \in 1..Len(FilasMovibles) |->
                   IF FilasMovibles[i].proyecto_id = p
                   THEN SumSeq([j \in 1..Len(FilasMovibles[i].dias) |->
                                   m[<<Id(FilasMovibles[i]), FilasMovibles[i].dias[j]>>]])
                   ELSE 0])
        <= optimizador_params.MAX_MOVEMENTS_PER_PROJECT

\* Max_n_movimentos_{p}
MaxMovimientos(m) ==
    \A p \in SetAOptimizar(proyectos) :
        SumSeq([i \in 1..Len(FilasMovibles) |->
                   IF FilasMovibles[i].proyecto_id = p
                   THEN SumSeq([j \in 1..Len(FilasMovibles[i].dias) |->
                                   m[<<Id(FilasMovibles[i]), FilasMovibles[i].dias[j]>>]])
                   ELSE 0])
          + Get(dicc.movimientos_anteriores, p)
        <= optimizador_params.MAX_MOVEMENTS_PER_PROJECT

\* Definicion_syncrolift_{p}_{d}
DefinicionSyncrolift(s, y) == \A k \in SKeys : s[k] = y[k[1]]

\* Max_usos_syncrolift without the uses of the confirmed projects
MaxUsosSyncroliftSinConfirmados(s) ==
    \A d \in Range(dias) :
        SumSet(SetAOptimizar(proyectos), [p \in SetAOptimizar(proyectos) |-> Get(s, <<p, d>>)])
        <= optimizador_params.MAX_USES_SYNCROLIFT_PER_DAY

\* Max_usos_syncrolift_{d}
MaxUsosSyncrolift(s) ==
    \A d \in Range(dias) :
        SumSet(SetAOptimizar(proyectos), [p \in SetAOptimizar(proyectos) |-> Get(s, <<p, d>>)])
          + Get(dicc.usos_syncrolift_confirmados, d)
        <= optimizador_params.MAX_USES_SYNCROLIFT_PER_DAY

\* variable_set['m'][(p_1, 0)] of Movimiento_dia_0 raises KeyError when the
\* period has no movement variable on day 0
FaltaVariableDia0(posicion_anterior) ==
    \E p_1 \in DOMAIN posicion_anterior : <<p_1, 0>> \notin MKeys

\* the assignments of 0/1 to the variables that satisfy every restriction,
\* enumerated variable family by variable family
Factibles ==
    UNION {LET ses == {ss \in [SKeys -> {0, 1}] :
                          DefinicionSyncrolift(ss, y) /\ MaxUsosSyncrolift(ss)}
           IN IF ses = {} THEN {}
              ELSE UNION {{[x |-> x, y |-> y, m |-> m, s |-> s] :
                              m \in {mm \in [MKeys -> {0, 1}] :
                                        /\ MovimientoMayor(x, mm)
                                        /\ MovimientoMenor(x, mm)
                                        /\ MovimientoDia0(x, mm)
                                        /\ MaxMovimientos(mm)},
                              s \in ses} :
                          x \in {xx \in [XKeys -> {0, 1}] : Asignacion(xx, y) /\ Longitud(xx)}} :
           y \in [YKeys -> {0, 1}]}

(* ----------------- optimizador: _crear_dataframe_resultados ----------- *)
\* the order of the strings used as ubicacion
OrdenUbicacion(u) ==
    CASE u = "CALLE1" -> 1 [] u = AreaManiobra -> 2 [] u = "NORTE" -> 3
      [] u = SinUbicacion -> 4 [] u = "SUR" -> 5 [] OTHER -> 6

\* the order of the group keys (proyecto_id, periodo_id, id, ubicacion)
AntesGrupo(g1, g2) ==
    \/ OrdenProyecto(g1[1][1]) < OrdenProyecto(g2[1][1])
    \/ g1[1][1] = g2[1][1] /\ g1[1][2] < g2[1][2]
    \/ g1[1] = g2[1] /\ OrdenUbicacion(g1[2]) < OrdenUbicacion(g2[2])

RECURSIVE EnOrden(_)
\* the groups of a groupby, sorted by their keys
EnOrden(G) ==
    IF G = {} THEN <<>>
    ELSE LET g == CHOOSE g \in G : \A h \in G \ {g} : AntesGrupo(g, h)
         IN <<g>> \o EnOrden(G \ {g})

\* the key of the last sort_values(['proyecto_id', 'periodo_id'])
AntesResultado(r1, r2) ==
    \/ OrdenProyecto(r1.proyecto_id) < OrdenProyecto(r2.proyecto_id)
    \/ r1.proyecto_id = r2.proyecto_id /\ r1.periodo_id < r2.periodo_id

RECURSIVE InsertarResultado(_, _)
InsertarResultado(s, r) ==
    IF s = <<>> THEN <<r>>
    ELSE IF AntesResultado(r, Head(s)) THEN <<r>> \o s
    ELSE <<Head(s)>> \o InsertarResultado(Tail(s), r)

RECURSIVE OrdenarResultados(_)
OrdenarResultados(s) ==
    IF s = <<>> THEN <<>>
    ELSE InsertarResultado(OrdenarResultados(SubSeq(s, 1, Len(s) - 1)), s[Len(s)])

\* pd.to_datetime(dia, unit="D", origin=fecha_inicial)
AFecha(d, fecha_inicial) == fecha_inicial + d

FilaResultado(id, ubicacion, ini, fin, fecha_inicial) ==
    [proyecto_id |-> id[1], periodo_id |-> id[2], id_proyecto_reparacion |-> id,
     ubicacion |-> ubicacion,
     fecha_inicio |-> AFecha(ini, fecha_inicial), fecha_fin |-> AFecha(fin, fecha_inicial),
     id_resultado |-> <<id[1], AFecha(ini, fecha_inicial), AFecha(fin, fecha_inicial), ubicacion>>]

\* the result table without the rows of the periods that got no location
crear_dataframe_resultados_solo_asignados(x, t, proy, fecha_inicial) ==
    LET unos == {k \in DOMAIN x : x[k] = 1}
        grupos == EnOrden({<<k[1], k[3]>> : k \in unos})
        DiasGrupo(g) == {k[2] : k \in {q \in unos : q[1] = g[1] /\ q[3] = g[2]}}
        agregados == [i \in 1..Len(grupos) |->
                        FilaResultado(grupos[i][1], grupos[i][2],
                                      CHOOSE d \in DiasGrupo(grupos[i]) :
                                          \A e \in DiasGrupo(grupos[i]) : d <= e,
                                      CHOOSE d \in DiasGrupo(grupos[i]) :
                                          \A e \in DiasGrupo(grupos[i]) : e <= d,
                                      fecha_inicial)]
    IN OrdenarResultados(agregados)

\* lines 288-322
crear_dataframe_resultados(x, t, proy, fecha_inicial) ==
    LET unos == {k \in DOMAIN x : x[k] = 1}
        grupos == EnOrden({<<k[1], k[3]>> : k \in unos})
        DiasGrupo(g) == {k[2] : k \in {q \in unos : q[1] = g[1] /\ q[3] = g[2]}}
        agregados == [i \in 1..Len(grupos) |->
                        FilaResultado(grupos[i][1], grupos[i][2],
                                      CHOOSE d \in DiasGrupo(grupos[i]) :
                                          \A e \in DiasGrupo(grupos[i]) : d <= e,
                                      CHOOSE d \in DiasGrupo(grupos[i]) :
                                          \A e \in DiasGrupo(grupos[i]) : e <= d,
                                      fecha_inicial)]
        opt == FilasDe(t, SetAOptimizar(proy))
        sin == SelectSeq(opt, LAMBDA r : Id(r) \notin {grupos[i][1] : i \in 1..Len(grupos)})
        no_asignados == [i \in 1..Len(sin) |->
                           FilaResultado(Id(sin[i]), sin[i].nombre_area,
                                         sin[i].fecha_inicio, sin[i].fecha_fin, fecha_inicial)]
    IN OrdenarResultados(agregados \o no_asignados)

(* ------------------------------- inputs ------------------------------- *)
Proyecto(eslora, manga, facturacion, a_optimizar) ==
    [eslora |-> eslora, manga |-> manga, facturacion |-> facturacion,
     proyecto_a_optimizar |-> a_optimizar]

\* a row of the table leer_datos returns: the days a..b as dates
FilaEntrada(p, a, b, tipo, area) == Fila(p, FechaInicial + a, FechaInicial + b, tipo, area)

Dias == -PastDays..MaxDay
Intervalos == {iv \in Dias \X Dias : iv[1] <= iv[2]}
\* a first day, a cut and a last day: the periods a..c-1 and c..b
Cortes == {t \in Dias \X Dias \X Dias : t[1] < t[2] /\ t[2] <= t[3]}

\* a period that starts before the epoch has an area; leer_datos leaves the
\* later periods of a project to optimize without one
AreaDe(a, area) == IF a < 0 THEN area ELSE SinUbicacion

UnPeriodo(p, tipo, areas, intervalos) ==
    {<<FilaEntrada(p, iv[1], iv[2], tipo, area)>> : iv \in intervalos, area \in areas}

DosPeriodos(p, tipo1, tipo2, area1, area2, cortes) ==
    {<<FilaEntrada(p, t[1], t[2] - 1, tipo1, AreaDe(t[1], area1)),
       FilaEntrada(p, t[2], t[3], tipo2, AreaDe(t[2], area2))>> : t \in cortes}

\* a period whose last day is before its first day
PeriodoInvertido(p, tipo, area) == <<FilaEntrada(p, MaxDay, MaxDay - 1, tipo, area)>>

ConEslora(tablas, esloras) == {[filas |-> t, eslora |-> e] : t \in tablas, e \in esloras}

\* P1 is a project to optimize
MuellesP1 ==
    ConEslora(UnPeriodo("P1", FLOTE, {"SUR"}, {iv \in Intervalos : iv[1] \in {-PastDays, -1}})
                \cup UnPeriodo("P1", FLOTE, {AreaManiobra, SinUbicacion},
                               {iv \in Intervalos : iv[1] = -PastDays})
                \cup DosPeriodos("P1", FLOTE, FLOTE, "SUR", "NORTE",
                               {t \in Cortes : t[1] = -PastDays /\ t[2] < 0})
                \cup {PeriodoInvertido("P1", FLOTE, SinUbicacion)},
              {1})
    \cup ConEslora(UnPeriodo("P1", FLOTE, {SinUbicacion}, {iv \in Intervalos : iv[1] >= 0}),
                   {1, 2})

VaradaP1 ==
    ConEslora(UnPeriodo("P1", VARADA, {"CALLE1"}, {iv \in Intervalos : iv[1] < 0})
                \cup UnPeriodo("P1", VARADA, {SinUbicacion}, {iv \in Intervalos : iv[1] >= 0})
                \cup DosPeriodos("P1", FLOTE, VARADA, "SUR", "CALLE1", {t \in Cortes : t[1] >= 0})
                \cup DosPeriodos("P1", VARADA, FLOTE, "CALLE1", "SUR", {t \in Cortes : t[1] >= 0}),
              {1, 3})

\* P2 is a confirmed project (with an area) or a second project to optimize
IntervalosP2 == {<<0, MaxDay>>, <<1, 1>>}

MuellesP2 ==
    {[filas |-> t, eslora |-> e, facturacion |-> 12, a_optimizar |-> FALSE] :
        t \in UnPeriodo("P2", FLOTE, {"SUR", "NORTE", AreaManiobra}, IntervalosP2),
        e \in {2, 3}}
    \cup {[filas |-> PeriodoInvertido("P2", FLOTE, "SUR"), eslora |-> 2, facturacion |-> 12,
            a_optimizar |-> FALSE]}
    \cup {[filas |-> t, eslora |-> 2, facturacion |-> f, a_optimizar |-> TRUE] :
            t \in UnPeriodo("P2", FLOTE, {SinUbicacion}, IntervalosP2), f \in {1, 24}}

VaradaP2 ==
    {[filas |-> t, eslora |-> 2, facturacion |-> 12, a_optimizar |-> FALSE] :
        t \in UnPeriodo("P2", VARADA, {"CALLE1"}, IntervalosP2 \cup {<<-1, 1>>})}
    \cup {[filas |-> t, eslora |-> e, facturacion |-> 12, a_optimizar |-> TRUE] :
            t \in UnPeriodo("P2", VARADA, {SinUbicacion}, IntervalosP2), e \in {2, 3}}

\* optimizer.json
ParamsPorDefecto(max_mov) ==
    [MOVED_PROJECTS_PENALTY_PER_MOVEMENT |-> 1, MAX_MOVEMENTS_PER_PROJECT |-> max_mov,
     MAX_USES_SYNCROLIFT_PER_DAY |-> 1, MIN_FACTURACION_DIARIA |-> 1]

Entrada(p1, p2, defecto, conf) ==
    [proyectos |-> [p \in {"P1", "P2"} |->
                       IF p = "P1" THEN Proyecto(p1.eslora, 1, 12, TRUE)
                       ELSE Proyecto(p2.eslora, 1, p2.facturacion, p2.a_optimizar)],
     tabla |-> p1.filas \o p2.filas,
     defecto |-> defecto,
     config |-> conf]

\* the default MAX_MOVEMENTS_PER_PROJECT with the config of the job: no
\* value, a larger value, or 0
ParamsMuelles ==
    {<<0, [MOVED_PROJECTS_PENALTY_PER_MOVEMENT |-> 1]>>,
     <<1, [MOVED_PROJECTS_PENALTY_PER_MOVEMENT |-> 1, MAX_MOVEMENTS_PER_PROJECT |-> 2]>>,
     <<1, [MOVED_PROJECTS_PENALTY_PER_MOVEMENT |-> 1, MAX_MOVEMENTS_PER_PROJECT |-> 0]>>}

\* a project to optimize and two confirmed projects at the same location
Entrada3(p1, p2, p3, defecto, conf) ==
    [proyectos |-> [p \in {"P1", "P2", "P3"} |->
                       IF p = "P1" THEN Proyecto(p1.eslora, 1, 12, TRUE)
                       ELSE IF p = "P2" THEN Proyecto(p2.eslora, 1, 12, FALSE)
                       ELSE Proyecto(p3.eslora, 1, 12, FALSE)],
     tabla |-> p1.filas \o p2.filas \o p3.filas,
     defecto |-> defecto,
     config |-> conf]

TresProyectos ==
    {Entrada3(p1, p2, p3, ParamsPorDefecto(1), [MOVED_PROJECTS_PENALTY_PER_MOVEMENT |-> 1]) :
        p1 \in ConEslora(UnPeriodo("P1", FLOTE, {SinUbicacion}, {<<0, MaxDay>>}), {1}),
        p2 \in ConEslora(UnPeriodo("P2", FLOTE, {"SUR"}, IntervalosP2), {2}),
        p3 \in ConEslora(UnPeriodo("P3", FLOTE, {"SUR"}, IntervalosP2), {1, 2})}
    \cup
    {Entrada3(p1, p2, p3, ParamsPorDefecto(1), conf) :
        p1 \in ConEslora(UnPeriodo("P1", VARADA, {SinUbicacion}, {<<0, MaxDay>>}), {1}),
        p2 \in ConEslora(UnPeriodo("P2", VARADA, {"CALLE1"}, IntervalosP2), {1}),
        p3 \in ConEslora(UnPeriodo("P3", VARADA, {"CALLE1"}, IntervalosP2), {1}),
        conf \in {[MOVED_PROJECTS_PENALTY_PER_MOVEMENT |-> 1],
                  [MOVED_PROJECTS_PENALTY_PER_MOVEMENT |-> 1, MAX_USES_SYNCROLIFT_PER_DAY |-> 2]}}

\* confirmed vessels fill SUR on day 1 and NORTE on every other day, so the
\* only place for P1 is SUR, then NORTE, then SUR again
IdaYVuelta ==
    {Entrada3([filas |-> <<FilaEntrada("P1", 0, MaxDay, FLOTE, SinUbicacion)>>, eslora |-> 1],
              [filas |-> <<FilaEntrada("P2", 1, 1, FLOTE, "SUR")>>, eslora |-> 3],
              [filas |-> <<FilaEntrada("P3", 0, 0, FLOTE, "NORTE"),
                           FilaEntrada("P3", 1, 1, VARADA, "CALLE1"),
                           FilaEntrada("P3", 2, MaxDay, FLOTE, "NORTE")>>, eslora |-> 1],
              ParamsPorDefecto(1),
              [MOVED_PROJECTS_PENALTY_PER_MOVEMENT |-> 1, MAX_MOVEMENTS_PER_PROJECT |-> 2])}

Entradas ==
    {Entrada(p1, p2, ParamsPorDefecto(par[1]), par[2]) :
        p1 \in MuellesP1, p2 \in MuellesP2, par \in ParamsMuelles}
    \cup
    {Entrada(p1, p2, ParamsPorDefecto(1), conf) :
        p1 \in VaradaP1, p2 \in VaradaP2,
        conf \in {[MOVED_PROJECTS_PENALTY_PER_MOVEMENT |-> 1],
                  [MOVED_PROJECTS_PENALTY_PER_MOVEMENT |-> 1, MAX_USES_SYNCROLIFT_PER_DAY |-> 2]}}
    \cup TresProyectos \cup IdaYVuelta

(* ------------------------------- actions ------------------------------ *)
SinValores == [x |-> <<>>, y |-> <<>>, m |-> <<>>, s |-> <<>>]
SinDiccionarios ==
    [longitudes_confirmados |-> <<>>, usos_syncrolift_confirmados |-> <<>>,
     movimientos_anteriores |-> <<>>, posicion_anterior |-> <<>>]

Init ==
    \E e \in Entradas :
        /\ pc = "leido"
        /\ entrada = e.tabla
        /\ config = e.config
        /\ proyectos = e.proyectos
        /\ periodos = e.tabla
        /\ dias = <<>>
        /\ optimizador_params = e.defecto
        /\ dicc = SinDiccionarios
        /\ estado = "Not Solved"
        /\ sol = SinValores
        /\ resultados = <<>>
        /\ error = ""

\* procesarDatos.preprocesar_datos
Preprocesar ==
    /\ pc = "leido"
    /\ LET t == Normalizar(ADias(periodos, FechaInicial), proyectos)
           fd == FacturacionDiaria(t, proyectos)
       IN /\ periodos' = Expandir(t, proyectos)
          /\ dias' = ListaDias(t)
          /\ proyectos' = [p \in DOMAIN proyectos |->
                              [eslora |-> proyectos[p].eslora, manga |-> proyectos[p].manga,
                               facturacion |-> proyectos[p].facturacion,
                               proyecto_a_optimizar |-> proyectos[p].proyecto_a_optimizar,
                               facturacion_diaria |-> fd[p]]]
    /\ optimizador_params' = SobrescribirParams(optimizador_params, config)
    /\ pc' = "preprocesado"
    /\ UNCHANGED <<entrada, config, dicc, estado, sol, resultados, error>>

\* Optimizador.optimize up to _definir_restricciones: the variables, the
\* objective and the restrictions
DefinirModelo ==
    /\ pc = "preprocesado"
    /\ UNCHANGED <<entrada, config, periodos, dias, optimizador_params,
                   estado, sol, resultados>>
    /\ proyectos' = [p \in DOMAIN proyectos |->
                        [proyectos[p] EXCEPT !.facturacion_diaria =
                            Recortar(@, optimizador_params.MIN_FACTURACION_DIARIA)]]
    /\ dicc' = [longitudes_confirmados |->
                    crear_diccionario_longitudes_confirmados(periodos, proyectos),
                usos_syncrolift_confirmados |->
                    crear_diccionario_usos_syncrolift_confirmados(
                        optimizador_params.MAX_USES_SYNCROLIFT_PER_DAY, periodos, proyectos),
                movimientos_anteriores |->
                    crear_diccionario_movimientos_anteriores(
                        optimizador_params.MAX_MOVEMENTS_PER_PROJECT, periodos, proyectos),
                posicion_anterior |->
                    crear_diccionario_periodos_ubicaciones_cruzan(periodos, proyectos)]
    /\ IF FaltaVariableDia0(dicc'.posicion_anterior)
       THEN pc' = "error" /\ error' = "KeyError"
       ELSE pc' = "modelo" /\ error' = error

\* what the solver leaves in the variables when it ends without an optimum
ValoresSinOptimo ==
    {[x |-> [k \in XKeys |-> v], y |-> [k \in YKeys |-> v],
      m |-> [k \in MKeys |-> v], s |-> [k \in SKeys |-> v]] : v \in {0, 1}}

\* Optimizador._resolver_problema: prob.solve()
Resolver ==
    /\ pc = "modelo"
    /\ \/ \E a \in Factibles : estado' = "Optimal" /\ sol' = a
       \/ Factibles = {} /\ estado' = "Infeasible" /\ sol' \in ValoresSinOptimo
       \/ estado' = "Not Solved" /\ sol' \in ValoresSinOptimo
    /\ pc' = "resuelto"
    /\ UNCHANGED <<entrada, config, proyectos, periodos, dias, optimizador_params,
                   dicc, resultados, error>>

\* Optimizador.optimize from _imprimir_asignacion on: the status is printed
\* and the result table is built, whatever the status
CrearResultados ==
    /\ pc = "resuelto"
    /\ resultados' = crear_dataframe_resultados(sol.x, periodos, proyectos, FechaInicial)
    /\ pc' = "fin"
    /\ UNCHANGED <<entrada, config, proyectos, periodos, dias, optimizador_params,
                   dicc, estado, sol, error>>

Next == Preprocesar \/ DefinirModelo \/ Resolver \/ CrearResultados

Spec == Init /\ [][Next]_vars

(* ----------------------- properties of the model ---------------------- *)
\* the solver returned an assignment that satisfies the restrictions
Resuelto == pc \in {"resuelto", "fin"} /\ estado = "Optimal"

\* the locations the solution gives period r on day d
UbicacionElegida(r, d) == {loc \in Range(r.ubicaciones) : sol.x[<<Id(r), d, loc>>] = 1}

\* C1: in an assignment that satisfies the restrictions, the number of
\* locations chosen for an optimizable period on each of its days equals
\* y of its project: a period is never at two locations on one day, and a
\* project is placed on every day of every one of its periods or on none.
C1_UnaUbicacionPorDia ==
    Resuelto =>
        /\ \A r \in Range(FilasAOptimizar) : \A d \in Range(r.dias) :
              /\ Cardinality(UbicacionElegida(r, d)) = sol.y[r.proyecto_id]
              /\ Cardinality(UbicacionElegida(r, d)) <= 1
        /\ \A r1, r2 \in Range(FilasAOptimizar) :
              \A d1 \in Range(r1.dias) : \A d2 \in Range(r2.dias) :
                  r1.proyecto_id = r2.proyecto_id =>
                      (UbicacionElegida(r1, d1) = {} <=> UbicacionElegida(r2, d2) = {})

\* a placed project with a choice of locations over several days, next to
\* a project that is left without a place
C1_Testigo ==
    /\ Resuelto
    /\ \E r \in Range(FilasMovibles) : Len(r.dias) >= 2 /\ sol.y[r.proyecto_id] = 1
    /\ \E r \in Range(FilasAOptimizar) : r.dias # <<>> /\ sol.y[r.proyecto_id] = 0

\* the metres the optimized periods take of loc on day d
MetrosOptimizados(d, loc) ==
    SumSeq([i \in 1..Len(FilasAOptimizar) |->
               IF <<Id(FilasAOptimizar[i]), d, loc>> \in XKeys
                  /\ sol.x[<<Id(FilasAOptimizar[i]), d, loc>>] = 1
               THEN proyectos[FilasAOptimizar[i].proyecto_id].eslora ELSE 0])

\* the metres of the periods of confirmed projects declared at loc whose
\* day range contains d
MetrosConfirmados(d, loc) ==
    SumSeq([i \in 1..Len(periodos) |->
               IF /\ periodos[i].proyecto_id \in SetNoOptimizar(proyectos)
                  /\ periodos[i].nombre_area = loc
                  /\ periodos[i].fecha_inicio <= d /\ d <= periodos[i].fecha_fin
               THEN proyectos[periodos[i].proyecto_id].eslora ELSE 0])

CambiosDeUbicacion(p) ==
    UNION {{<<Id(r), d>> : d \in {e \in Range(Resto(r.dias)) :
                                     UbicacionElegida(r, e) # UbicacionElegida(r, e - 1)}} :
              r \in {q \in Range(FilasAOptimizar) : q.proyecto_id = p}}

\* the periods of project p that follow a period that ends on day -1 and
\* are not, on day 0, where that period was
MovimientosDia0(p) ==
    {p_1 \in DOMAIN dicc.posicion_anterior :
        /\ p_1[1] = p
        /\ Get(sol.x, <<p_1, 0, dicc.posicion_anterior[p_1]>>) # 1}

\* C3: for every project to optimize, the changes of location inside the
\* horizon plus the movement of day 0 plus its movements before the
\* horizon are at most MAX_MOVEMENTS_PER_PROJECT.
C3_MaxMovimientos ==
    Resuelto =>
        \A p \in SetAOptimizar(proyectos) :
            Cardinality(CambiosDeUbicacion(p)) + Cardinality(MovimientosDia0(p))
              + Get(dicc.movimientos_anteriores, p)
            <= optimizador_params.MAX_MOVEMENTS_PER_PROJECT

\* a project that moved before the horizon moves again inside it
C3_Testigo ==
    /\ Resuelto
    /\ \E p \in SetAOptimizar(proyectos) :
          /\ Get(dicc.movimientos_anteriores, p) >= 1
          /\ Cardinality(CambiosDeUbicacion(p)) + Cardinality(MovimientosDia0(p)) >= 1

\* the placed projects to optimize with a period in VARADA that starts or
\* ends on day d
UsosOptimizados(d) ==
    {p \in SetAOptimizar(proyectos) :
        /\ sol.y[p] = 1
        /\ \E r \in Range(FilasAOptimizar) :
              r.proyecto_id = p /\ r.tipo_desc = VARADA /\ d \in {r.fecha_inicio, r.fecha_fin}}

\* the launches and lifts of the confirmed projects on day d
UsosConfirmados(d) ==
    Get(crear_diccionario_usos_syncrolift_confirmados(2 * Len(periodos), periodos, proyectos), d)

C5_MovimientoExacto ==
    Resuelto =>
        \A r \in Range(FilasMovibles) : \A d \in Range(Resto(r.dias)) :
            sol.m[<<Id(r), d>>] = 1 <=> UbicacionElegida(r, d) # UbicacionElegida(r, d - 1)

\* the rows of the result table that aggregate days of the solution
FilasAgregadas ==
    {i \in 1..Len(resultados) :
        \E k \in XKeys : k[1] = resultados[i].id_proyecto_reparacion /\ sol.x[k] = 1}

C7_FilasConfirmadas ==
    (pc = "fin" /\ estado = "Optimal") =>
        \A r \in Range(FilasDe(periodos, SetNoOptimizar(proyectos))) :
            r.dias # <<>> =>
                \E i \in 1..Len(resultados) :
                    /\ resultados[i].id_proyecto_reparacion = Id(r)
                    /\ resultados[i].ubicacion = r.nombre_area
                    /\ resultados[i].fecha_inicio = AFecha(r.fecha_inicio, FechaInicial)
                    /\ resultados[i].fecha_fin = AFecha(r.fecha_fin, FechaInicial)

\* C8: when the solver ends with a status other than Optimal, optimize
\* builds no result table and ends with an error; a result table is built
\* only on Optimal.
C8_SoloOptimo ==
    /\ pc = "fin" => estado = "Optimal"
    /\ (pc \in {"resuelto", "fin"} /\ estado # "Optimal") => resultados = <<>>
    /\ (pc = "fin" /\ estado # "Optimal") => error # ""

\* a period that ends before it starts, or a period of a confirmed project
\* whose area is neither SIN UBICACION ASIGNADA nor a known location
EntradaInvalida ==
    \E i \in 1..Len(entrada) :
        \/ entrada[i].fecha_fin < entrada[i].fecha_inicio
        \/ /\ entrada[i].proyecto_id \in SetNoOptimizar(proyectos)
           /\ entrada[i].nombre_area \notin Range(UbicacionesIndex) \cup {SinUbicacion}

\* C9: with a period that ends before it starts, or a confirmed period at
\* an unknown area, preprocessing fails with INVALID_INPUT before the model
\* is built and before the solver runs.
C9_EntradaInvalidaFalla ==
    EntradaInvalida =>
        /\ pc \in {"leido", "error"}
        /\ pc = "error" => error = "INVALID_INPUT"

(* --------------------- the Normalizer applied twice -------------------- *)
\* day-indexed period tables of one project: one or two periods of any
\* first day, last day, type and area, or three periods one after the other
AreasTabla == {"SUR", "NORTE", SinUbicacion}
FilasTabla ==
    {Fila("P1", iv[1], iv[2], tipo, area) :
        iv \in Dias \X Dias, tipo \in {FLOTE, VARADA}, area \in AreasTabla}
Tablas ==
    {<<r>> : r \in FilasTabla}
    \cup {<<r1, r2>> : r1 \in FilasTabla, r2 \in FilasTabla}
    \cup {<<Fila("P1", -1, -1, FLOTE, a1), Fila("P1", 0, 0, FLOTE, a2),
            Fila("P1", 1, MaxDay, FLOTE, a3)>> : a1 \in AreasTabla, a2 \in AreasTabla,
                                                    a3 \in AreasTabla}

InitNorm ==
    \E t \in Tablas : \E a_optimizar \in BOOLEAN :
        /\ pc = "tabla"
        /\ entrada = t
        /\ periodos = t
        /\ proyectos = [p \in {"P1"} |-> Proyecto(1, 1, 12, a_optimizar)]
        /\ config = <<>>
        /\ dias = <<>>
        /\ optimizador_params = ParamsPorDefecto(1)
        /\ dicc = SinDiccionarios
        /\ estado = "Not Solved"
        /\ sol = SinValores
        /\ resultados = <<>>
        /\ error = ""

\* lines 101-116 of preprocesar_datos
NormalizarUnaVez ==
    /\ pc = "tabla"
    /\ periodos' = Normalizar(periodos, proyectos)
    /\ pc' = "normalizada"
    /\ UNCHANGED <<entrada, config, proyectos, dias, optimizador_params, dicc, estado,
                   sol, resultados, error>>

\* the same lines on the table they returned
NormalizarOtraVez ==
    /\ pc = "normalizada"
    /\ periodos' = Normalizar(periodos, proyectos)
    /\ pc' = "renormalizada"
    /\ UNCHANGED <<entrada, config, proyectos, dias, optimizador_params, dicc, estado,
                   sol, resultados, error>>

NextNorm == NormalizarUnaVez \/ NormalizarOtraVez

SpecNorm == InitNorm /\ [][NextNorm]_vars

SinAreaDesdeElOrigen(t) ==
    \A i \in 1..Len(t) :
        (/\ proyectos[t[i].proyecto_id].proyecto_a_optimizar
         /\ (t[i].fecha_inicio >= 0 \/ t[i].fecha_fin >= 0))
            => t[i].nombre_area = SinUbicacion

MitadAnterior(t) == SelectSeq(t, LAMBDA r : r.fecha_fin <= -1)
MitadPosterior(t) == SelectSeq(t, LAMBDA r : r.fecha_inicio >= 0)

\* unificar_periodos_consecutivos on each half of the table
UnificarPorMitades(t) ==
    unificar_periodos_consecutivos(MitadAnterior(t))
        \o unificar_periodos_consecutivos(MitadPosterior(t))

InitPasos ==
    \E t \in Tablas : \E a_optimizar \in BOOLEAN :
        /\ pc = "tabla"
        /\ entrada = t
        /\ periodos = t
        /\ proyectos = [p \in {"P1"} |-> Proyecto(1, 1, 12, a_optimizar)]
        /\ config = <<>>
        /\ dias = <<>>
        /\ optimizador_params = ParamsPorDefecto(1)
        /\ dicc = SinDiccionarios
        /\ estado = "Not Solved"
        /\ sol = SinValores
        /\ resultados = <<>>
        /\ error = ""

\* line 102 of preprocesar_datos
Unificar ==
    /\ pc = "tabla"
    /\ periodos' = unificar_periodos_consecutivos(periodos)
    /\ pc' = "unida"
    /\ UNCHANGED <<entrada, config, proyectos, dias, optimizador_params, dicc, estado,
                   sol, resultados, error>>

\* line 105 of preprocesar_datos
Separar ==
    /\ pc = "unida"
    /\ periodos' = separar_periodos_cruzan(periodos)
    /\ pc' = "unida_separada"
    /\ UNCHANGED <<entrada, config, proyectos, dias, optimizador_params, dicc, estado,
                   sol, resultados, error>>

\* the two steps in the other order: the split on the table as it came
SepararPrimero ==
    /\ pc = "tabla"
    /\ periodos' = separar_periodos_cruzan(periodos)
    /\ pc' = "separada"
    /\ UNCHANGED <<entrada, config, proyectos, dias, optimizador_params, dicc, estado,
                   sol, resultados, error>>

\* ... and then the merge on each half
UnificarMitades ==
    /\ pc = "separada"
    /\ periodos' = UnificarPorMitades(periodos)
    /\ pc' = "separada_unida"
    /\ UNCHANGED <<entrada, config, proyectos, dias, optimizador_params, dicc, estado,
                   sol, resultados, error>>

NextPasos == Unificar \/ Separar \/ SepararPrimero \/ UnificarMitades

SpecPasos == InitPasos /\ [][NextPasos]_vars

\* C11 as stated: for every period table, the merge followed by the split
\* gives the same set of periods as the split followed by the merge on each
\* half.
C11_UnirSepararConmutan ==
    /\ pc = "unida_separada" =>
          Range(periodos) = Range(UnificarPorMitades(separar_periodos_cruzan(entrada)))
    /\ pc = "separada_unida" =>
          Range(periodos) = Range(separar_periodos_cruzan(unificar_periodos_consecutivos(entrada)))

\* C12: for every period of posicion_anterior, in every assignment that
\* satisfies the restrictions, m of the period on day 0 is 1 unless the
\* period is on day 0 at its previous area; when the previous area is not
\* one of its candidate locations the movement is always charged.
C12_MovimientoDia0 ==
    Resuelto =>
        \A p_1 \in DOMAIN dicc.posicion_anterior :
            /\ Get(sol.x, <<p_1, 0, dicc.posicion_anterior[p_1]>>) # 1
                  => sol.m[<<p_1, 0>>] = 1
            /\ <<p_1, 0, dicc.posicion_anterior[p_1]>> \notin XKeys
                  => sol.m[<<p_1, 0>>] = 1

\* a period placed on day 0 away from its previous area, which is one of
\* its candidates
C12_Testigo ==
    /\ Resuelto
    /\ \E p_1 \in DOMAIN dicc.posicion_anterior :
          /\ <<p_1, 0, dicc.posicion_anterior[p_1]>> \in XKeys
          /\ sol.x[<<p_1, 0, dicc.posicion_anterior[p_1]>>] = 0
          /\ sol.y[p_1[1]] = 1
          /\ sol.m[<<p_1, 0>>] = 1

\* the dictionaries of _definir_restricciones have been built
ModeloDefinido == pc \in {"modelo", "resuelto", "fin", "error"}

\* C13: posicion_anterior holds A for a period only if the period belongs
\* to a project to optimize and starts on day 0, and the period before it
\* in its project ends on day -1, has the same type and has the concrete
\* area A; a period that follows a period without area is never a key.
C13_SoloAreaConcreta ==
    ModeloDefinido =>
        \A p_1 \in DOMAIN dicc.posicion_anterior :
            \E i, j \in 1..Len(periodos) :
                /\ Id(periodos[i]) = p_1
                /\ periodos[i].proyecto_id \in SetAOptimizar(proyectos)
                /\ periodos[i].fecha_inicio = 0
                /\ periodos[j].proyecto_id = periodos[i].proyecto_id
                /\ periodos[j].periodo_id = periodos[i].periodo_id - 1
                /\ periodos[j].fecha_fin = -1
                /\ periodos[j].tipo_desc = periodos[i].tipo_desc
                /\ periodos[j].nombre_area = dicc.posicion_anterior[p_1]
                /\ dicc.posicion_anterior[p_1] # SinUbicacion

\* the projects to optimize with a period without area, with days in the
\* horizon and with no candidate location
SinCandidatas ==
    {p \in SetAOptimizar(proyectos) :
        \E r \in Range(FilasAOptimizar) :
            /\ r.proyecto_id = p
            /\ r.nombre_area = SinUbicacion
            /\ r.dias # <<>>
            /\ r.ubicaciones = <<>>}

\* C14: a project to optimize with a period without area, with days and
\* with no candidate location has y = 0 in every assignment that satisfies
\* the restrictions, none of its periods gets a location on any day, and
\* the result table has for each of its periods in the horizon exactly one
\* row, with SIN UBICACION ASIGNADA and the span of the period.
C14_SinCandidatasSinLugar ==
    Resuelto =>
        \A p \in SinCandidatas :
            /\ sol.y[p] = 0
            /\ \A k \in XKeys : k[1][1] = p => sol.x[k] = 0
            /\ pc = "fin" =>
                  \A r \in Range(FilasAOptimizar) :
                      (r.proyecto_id = p /\ r.dias # <<>>) =>
                          /\ Cardinality({i \in 1..Len(resultados) :
                                 resultados[i].id_proyecto_reparacion = Id(r)}) = 1
                          /\ \A i \in 1..Len(resultados) :
                                 resultados[i].id_proyecto_reparacion = Id(r) =>
                                     /\ resultados[i].ubicacion = SinUbicacion
                                     /\ resultados[i].fecha_inicio
                                          = AFecha(r.fecha_inicio, FechaInicial)
                                     /\ resultados[i].fecha_fin
                                          = AFecha(r.fecha_fin, FechaInicial)

\* a project with two periods in the horizon, one with candidates and one
\* with none, and its rows in the result table
C14_Testigo ==
    /\ pc = "fin" /\ estado = "Optimal"
    /\ \E p \in SinCandidatas :
          \E r \in Range(FilasAOptimizar) :
              r.proyecto_id = p /\ r.dias # <<>> /\ r.ubicaciones # <<>>

\* C15: preprocesar_datos leaves in every parameter of the defaults the
\* value the config of the job gives for it, whatever that value is, and
\* the default when the config gives none.
C15_ConfigSobrescribe ==
    [][pc = "leido" =>
          \A param \in DOMAIN optimizador_params :
              optimizador_params'[param] =
                  IF param \in DOMAIN config THEN config[param]
                  ELSE optimizador_params[param]]_vars

\* the single period of project p, when p has exactly one row
PeriodoUnico(p) == CHOOSE r \in Range(periodos) : r.proyecto_id = p

\* two projects to optimize, each with one period afloat, on the same days,
\* with the same single candidate quay, where each fits and both do not
CompitenPorMuelle(p, q) ==
    /\ p # q
    /\ {p, q} \subseteq SetAOptimizar(proyectos)
    /\ \A o \in {p, q} : Cardinality({i \in 1..Len(periodos) : periodos[i].proyecto_id = o}) = 1
    /\ LET rp == PeriodoUnico(p)
           rq == PeriodoUnico(q)
       IN /\ rp.tipo_desc = FLOTE /\ rq.tipo_desc = FLOTE
          /\ rp.dias # <<>> /\ rp.dias = rq.dias
          /\ Len(rp.ubicaciones) = 1 /\ rp.ubicaciones = rq.ubicaciones
          /\ proyectos[p].eslora <= UbicacionesLongitud[rp.ubicaciones[1]]
          /\ proyectos[q].eslora <= UbicacionesLongitud[rp.ubicaciones[1]]
          /\ proyectos[p].eslora + proyectos[q].eslora > UbicacionesLongitud[rp.ubicaciones[1]]

\* the daily billing of the objective summed over the days of the period of p
FacturacionTotal(p) == Len(PeriodoUnico(p).dias) * TarifaEscalada(p)

\* LpMaximize: no assignment that satisfies the restrictions has a larger objective
EsOptimo(a) == \A b \in Factibles : Objetivo(b) <= Objetivo(a)

\* C16: when two projects to optimize afloat cover the same days, each fits
\* alone in the only candidate quay and both together exceed its length,
\* every assignment of largest objective places the project whose billing
\* over those days is larger, on the quay on each day, and leaves the other
\* with y = 0.
C16_GanaMayorFacturacion ==
    Resuelto =>
        \A p, q \in DOMAIN proyectos :
            (/\ CompitenPorMuelle(p, q)
             /\ FacturacionTotal(p) > FacturacionTotal(q)
             /\ EsOptimo(sol)) =>
                /\ sol.y[p] = 1 /\ sol.y[q] = 0
                /\ \A d \in Range(PeriodoUnico(p).dias) :
                       sol.x[<<Id(PeriodoUnico(p)), d, PeriodoUnico(p).ubicaciones[1]>>] = 1

\* the solver returned an optimum in which the project of larger billing
\* took the quay from the other
C16_Testigo ==
    /\ Resuelto
    /\ \E p, q \in DOMAIN proyectos :
          /\ CompitenPorMuelle(p, q)
          /\ FacturacionTotal(p) > FacturacionTotal(q)
          /\ EsOptimo(sol)
          /\ sol.y[p] = 1

\* the periods ashore of the projects to optimize that lie in the horizon
VaradasEnHorizonte ==
    {r \in Range(FilasAOptimizar) :
        r.tipo_desc = VARADA /\ 0 <= r.fecha_inicio /\ r.fecha_inicio <= r.fecha_fin}

\* a confirmed project whose last period is ashore and ends on day d
ConfirmadoTerminaVarada(d) ==
    \E q \in SetNoOptimizar(proyectos) :
        LET delq == Ordenar(FilasDe(periodos, {q}))
        IN delq # <<>> /\ delq[Len(delq)].tipo_desc = VARADA /\ delq[Len(delq)].fecha_fin = d

\* C17: a project to optimize with a period ashore [a..b] in the horizon
\* has y = 1 only if on day a and on day b the launches and lifts of the
\* confirmed projects plus the uses of the other placed projects to
\* optimize are below MAX_USES_SYNCROLIFT_PER_DAY; with a maximum of 1 and a
\* confirmed project ashore that ends on day b, y is 0.
C17_SyncroliftLibre ==
    Resuelto =>
        \A r \in VaradasEnHorizonte :
            /\ sol.y[r.proyecto_id] = 1 =>
                  \A d \in {r.fecha_inicio, r.fecha_fin} :
                      UsosConfirmados(d) + Cardinality(UsosOptimizados(d) \ {r.proyecto_id})
                      < optimizador_params.MAX_USES_SYNCROLIFT_PER_DAY
            /\ (/\ optimizador_params.MAX_USES_SYNCROLIFT_PER_DAY = 1
                /\ ConfirmadoTerminaVarada(r.fecha_fin)) => sol.y[r.proyecto_id] = 0

\* a project with candidate streets that a confirmed project ending on its
\* last day keeps out, with a maximum of one use a day
C17_Testigo ==
    /\ Resuelto
    /\ optimizador_params.MAX_USES_SYNCROLIFT_PER_DAY = 1
    /\ \E r \in VaradasEnHorizonte :
          /\ r.ubicaciones # <<>>
          /\ ConfirmadoTerminaVarada(r.fecha_fin)
          /\ sol.y[r.proyecto_id] = 0

\* preprocesar_datos has run
Preprocesado == pc # "leido"

\* the candidate locations a period has according to its area, its type
\* and the dimensions of its project
Candidatas(r) ==
    LET eslora == proyectos[r.proyecto_id].eslora
        manga == proyectos[r.proyecto_id].manga
    IN CASE r.nombre_area # SinUbicacion -> {r.nombre_area}
         [] r.nombre_area = SinUbicacion /\ r.tipo_desc = FLOTE ->
              {q \in Range(MuellesIndex) : MuellesLongitud[q] >= eslora}
         [] r.nombre_area = SinUbicacion /\ r.tipo_desc = VARADA ->
              IF eslora <= SyncroliftDims.longitud /\ manga <= SyncroliftDims.ancho
              THEN {c \in Range(CallesIndex) :
                       CallesLongitud[c] >= eslora /\ CallesAncho[c] >= manga}
              ELSE {}

\* C18: the candidate locations of every period are the area alone when
\* the period has an area; for a period afloat without area, the quays
\* at least as long as the eslora; for a period ashore without area, the
\* streets at least as long as the eslora and as wide as the manga when
\* the project fits the syncrolift, and none otherwise.
C18_UbicacionesCandidatas ==
    Preprocesado =>
        \A r \in Range(periodos) :
            /\ Range(r.ubicaciones) = Candidatas(r)
            /\ Len(r.ubicaciones) = Cardinality(Candidatas(r))

\* a period ashore without area of a project that fits a street and not
\* the syncrolift, next to periods of the other kinds
C18_Testigo ==
    /\ Preprocesado
    /\ \E r \in Range(periodos) :
          /\ r.nombre_area = SinUbicacion /\ r.tipo_desc = VARADA
          /\ proyectos[r.proyecto_id].eslora > SyncroliftDims.longitud
          /\ \E c \in Range(CallesIndex) : CallesLongitud[c] >= proyectos[r.proyecto_id].eslora
          /\ r.ubicaciones = <<>>
    /\ \E r \in Range(periodos) : r.nombre_area # SinUbicacion /\ Len(r.ubicaciones) = 1

(* --------------------- leerDatos: the periods of a project ------------ *)
\* the last row of acc with its fecha_fin replaced
ExtenderUltimo(acc, fin) == [acc EXCEPT ![Len(acc)].fecha_fin = fin]

\* lines 94-128: the first period of a project to optimize
PrimerPeriodoAOptimizar(p0, fecha_inicial) ==
    IF p0.fecha_inicio < fecha_inicial
    THEN IF p0.fecha_fin >= fecha_inicial
         THEN <<Fila(p0.proyecto_id, p0.fecha_inicio, fecha_inicial - 1, p0.tipo_desc,
                     p0.nombre_area),
                Fila(p0.proyecto_id, fecha_inicial, p0.fecha_fin, p0.tipo_desc, SinUbicacion)>>
         ELSE <<p0>>
    ELSE <<Fila(p0.proyecto_id, p0.fecha_inicio, p0.fecha_fin, p0.tipo_desc, SinUbicacion)>>

\* lines 131-214: one more period of a project to optimize
SiguientePeriodoAOptimizar(acc, p_k, fecha_inicial) ==
    LET ultimo == acc[Len(acc)]
        p == p_k.proyecto_id
    IN IF ultimo.proyecto_id = p /\ ultimo.tipo_desc = p_k.tipo_desc
       THEN IF ultimo.fecha_fin < fecha_inicial
            THEN IF p_k.fecha_fin >= fecha_inicial
                 THEN IF ultimo.nombre_area = p_k.nombre_area
                      THEN ExtenderUltimo(acc, fecha_inicial - 1)
                           \o <<Fila(p, fecha_inicial, p_k.fecha_fin, ultimo.tipo_desc,
                                     SinUbicacion)>>
                      ELSE acc \o <<Fila(p, p_k.fecha_inicio, fecha_inicial - 1,
                                         ultimo.tipo_desc, p_k.nombre_area),
                                    Fila(p, fecha_inicial, p_k.fecha_fin, ultimo.tipo_desc,
                                         SinUbicacion)>>
                 ELSE IF ultimo.nombre_area = p_k.nombre_area
                      THEN ExtenderUltimo(acc, fecha_inicial - 1)
                      ELSE acc \o <<Fila(p, p_k.fecha_inicio, p_k.fecha_fin, ultimo.tipo_desc,
                                         p_k.nombre_area)>>
            ELSE ExtenderUltimo(acc, p_k.fecha_fin)
       ELSE IF p_k.fecha_inicio < fecha_inicial /\ p_k.fecha_fin >= fecha_inicial
            THEN acc \o <<Fila(p, p_k.fecha_inicio, fecha_inicial - 1, p_k.tipo_desc,
                               p_k.nombre_area),
                          Fila(p, fecha_inicial, p_k.fecha_fin, p_k.tipo_desc, SinUbicacion)>>
            ELSE acc \o <<Fila(p, p_k.fecha_inicio, p_k.fecha_fin, p_k.tipo_desc,
                               SinUbicacion)>>

\* lines 237-249: one more period of a confirmed project
SiguientePeriodoConfirmado(acc, p_k) ==
    IF acc[Len(acc)].proyecto_id = p_k.proyecto_id
       /\ acc[Len(acc)].nombre_area = p_k.nombre_area
    THEN ExtenderUltimo(acc, p_k.fecha_fin)
    ELSE acc \o <<p_k>>

RECURSIVE LeerResto(_, _, _, _)
LeerResto(acc, resto, a_optimizar, fecha_inicial) ==
    IF resto = <<>> THEN acc
    ELSE LeerResto(IF a_optimizar
                   THEN SiguientePeriodoAOptimizar(acc, Head(resto), fecha_inicial)
                   ELSE SiguientePeriodoConfirmado(acc, Head(resto)),
                   Tail(resto), a_optimizar, fecha_inicial)

\* lines 82-249 for one project: the rows of periodos_data that leer_datos
\* makes from the periods of the job file
leer_periodos(json, a_optimizar, fecha_inicial) ==
    IF a_optimizar
    THEN LeerResto(PrimerPeriodoAOptimizar(Head(json), fecha_inicial), Tail(json), TRUE,
                   fecha_inicial)
    ELSE IF \E i \in 1..Len(json) : json[i].nombre_area # SinUbicacion
         THEN LeerResto(<<Head(json)>>, Tail(json), FALSE, fecha_inicial)
         ELSE <<>>

\* the periods of a project in the job file: one period, or two in order of
\* time that do not overlap
PeriodosJson ==
    {<<FilaEntrada("P1", iv[1], iv[2], tipo, area)>> :
        iv \in Intervalos, tipo \in {FLOTE, VARADA}, area \in AreasTabla}
    \cup {<<FilaEntrada("P1", t[1], t[2], tipo1, area1),
            FilaEntrada("P1", t[3], t[4], tipo2, area2)>> :
            t \in {u \in Dias \X Dias \X Dias \X Dias :
                      u[1] <= u[2] /\ u[2] < u[3] /\ u[3] <= u[4]},
            tipo1 \in {FLOTE, VARADA}, tipo2 \in {FLOTE, VARADA},
            area1 \in AreasTabla, area2 \in AreasTabla}

InitLeer ==
    \E json \in PeriodosJson : \E a_optimizar \in BOOLEAN :
        /\ pc = "json"
        /\ entrada = json
        /\ periodos = <<>>
        /\ proyectos = [p \in {"P1"} |-> Proyecto(1, 1, 12, a_optimizar)]
        /\ config = <<>>
        /\ dias = <<>>
        /\ optimizador_params = ParamsPorDefecto(1)
        /\ dicc = SinDiccionarios
        /\ estado = "Not Solved"
        /\ sol = SinValores
        /\ resultados = <<>>
        /\ error = ""

\* leer_datos
LeerDatos ==
    /\ pc = "json"
    /\ periodos' = leer_periodos(entrada, proyectos["P1"].proyecto_a_optimizar, FechaInicial)
    /\ pc' = "leido"
    /\ UNCHANGED <<entrada, config, proyectos, dias, optimizador_params, dicc, estado,
                   sol, resultados, error>>

\* lines 98-101 of preprocesar_datos on the table leer_datos returned
UnificarLeidos ==
    /\ pc = "leido"
    /\ periodos' = unificar_periodos_consecutivos(ADias(periodos, FechaInicial))
    /\ pc' = "unida"
    /\ UNCHANGED <<entrada, config, proyectos, dias, optimizador_params, dicc, estado,
                   sol, resultados, error>>

NextLeer == LeerDatos \/ UnificarLeidos

SpecLeer == InitLeer /\ [][NextLeer]_vars

\* C19, its last part: two periods of a project, one after the other in the
\* job file, that are separated by a gap or differ in type are never
\* merged: no row of the period table, read or unified, covers the last
\* day of the first and the first day of the second.
C19_NuncaUnidosConHueco ==
    pc \in {"leido", "unida"} =>
        LET json == ADias(entrada, FechaInicial)
            t == IF pc = "leido" THEN ADias(periodos, FechaInicial) ELSE periodos
        IN \A i \in 1..(Len(json) - 1) :
              (\/ json[i + 1].fecha_inicio # json[i].fecha_fin + 1
               \/ json[i + 1].tipo_desc # json[i].tipo_desc) =>
                  ~\E r \in Range(t) :
                      /\ r.fecha_inicio <= json[i].fecha_fin
                      /\ json[i + 1].fecha_inicio <= r.fecha_fin

\* the number of rows of t equal to r
Veces(t, r) == Cardinality({i \in 1..Len(t) : t[i] = r})

\* the pairs (project, day) the periods of t cover
Cubiertos(t) ==
    UNION {{<<t[i].proyecto_id, d>> : d \in t[i].fecha_inicio..t[i].fecha_fin} :
              i \in 1..Len(t)}

\* despues has, for every row of antes that starts before day 0 and ends on
\* or after it, the two rows [fecha_inicio..-1] and [0..fecha_fin] with the
\* rest of the row as it was, and every other row of antes as it was
SeparadaDe(antes, despues) ==
    /\ Len(despues) = Len(antes) + Len(SelectSeq(antes, Cruza))
    /\ \A r \in Range(despues) :
          Veces(despues, r) =
              (IF Cruza(r) THEN 0 ELSE Veces(antes, r))
              + Cardinality({i \in 1..Len(antes) :
                                Cruza(antes[i]) /\ [antes[i] EXCEPT !.fecha_fin = -1] = r})
              + Cardinality({i \in 1..Len(antes) :
                                Cruza(antes[i]) /\ [antes[i] EXCEPT !.fecha_inicio = 0] = r})
    /\ \A r \in Range(antes) :
          IF Cruza(r)
          THEN [r EXCEPT !.fecha_fin = -1] \in Range(despues)
               /\ [r EXCEPT !.fecha_inicio = 0] \in Range(despues)
          ELSE r \in Range(despues)

\* C20: the split step replaces every period with fecha_inicio < 0 and
\* fecha_fin >= 0 by the two rows [fecha_inicio..-1] and [0..fecha_fin] with
\* its type and area and leaves the other periods as they were; every
\* period of the table it returns has fecha_fin <= -1 or fecha_inicio >= 0,
\* and the table covers the same (project, day) pairs as before.
C20_SepararCruzan ==
    [][(pc' \in {"separada", "unida_separada"}) =>
          /\ SeparadaDe(periodos, periodos')
          /\ \A r \in Range(periodos') : r.fecha_fin <= -1 \/ r.fecha_inicio >= 0
          /\ Cubiertos(periodos') = Cubiertos(periodos)]_vars

\* the split has acted on a merged table with a period across day 0, and
\* its two halves are in the table
C20_Testigo ==
    /\ pc = "unida_separada"
    /\ \E r \in Range(unificar_periodos_consecutivos(entrada)) :
          /\ Cruza(r)
          /\ [r EXCEPT !.fecha_fin = -1] \in Range(periodos)
          /\ [r EXCEPT !.fecha_inicio = 0] \in Range(periodos)

\* the positions of the rows of project p in the period table
FilasDeProyecto(p) == {i \in 1..Len(periodos) : periodos[i].proyecto_id = p}

\* C21: in the normalized period table the periodo_id of the periods of
\* every project are 0..n-1 without gaps or repeats, they grow with
\* fecha_inicio, and the identifier (proyecto_id, periodo_id) is unique in
\* the table.
C21_IndicesPorProyecto ==
    Preprocesado =>
        /\ \A p \in DOMAIN proyectos :
              /\ {periodos[i].periodo_id : i \in FilasDeProyecto(p)}
                    = 0..(Cardinality(FilasDeProyecto(p)) - 1)
              /\ \A i, j \in FilasDeProyecto(p) :
                    /\ (i # j => periodos[i].periodo_id # periodos[j].periodo_id)
                    /\ (periodos[i].periodo_id < periodos[j].periodo_id
                          => periodos[i].fecha_inicio <= periodos[j].fecha_inicio)
        /\ \A i, j \in 1..Len(periodos) : i # j => Id(periodos[i]) # Id(periodos[j])

\* a project with three periods after the split and another project with one
C21_Testigo ==
    /\ Preprocesado
    /\ \E p, q \in DOMAIN proyectos :
          p # q /\ Cardinality(FilasDeProyecto(p)) >= 3 /\ Cardinality(FilasDeProyecto(q)) >= 1

\* the period table after the merge, the split and the index, before the
\* areas are forced
TablaSeparada ==
    Indexar(separar_periodos_cruzan(unificar_periodos_consecutivos(
        ADias(entrada, FechaInicial))))

\* C22: after the normalization every period of a project to optimize with
\* fecha_inicio >= 0 has SIN UBICACION ASIGNADA as area, and the periods of
\* the projects to optimize with fecha_inicio < 0 and all the periods of
\* the confirmed projects have the area they had after the merge and the
\* split.
C22_SoloFuturosSinArea ==
    Preprocesado =>
        /\ Len(periodos) = Len(TablaSeparada)
        /\ \A i \in 1..Len(periodos) :
              /\ Id(periodos[i]) = Id(TablaSeparada[i])
              /\ periodos[i].nombre_area =
                    IF /\ proyectos[periodos[i].proyecto_id].proyecto_a_optimizar
                       /\ periodos[i].fecha_inicio >= 0
                    THEN SinUbicacion
                    ELSE TablaSeparada[i].nombre_area

\* the second half of a period with an area of a project to optimize has
\* lost it, the first half and a confirmed period on day 0 or later keep theirs
C22_Testigo ==
    /\ Preprocesado
    /\ \E i, j, k \in 1..Len(periodos) :
          /\ proyectos[periodos[i].proyecto_id].proyecto_a_optimizar
          /\ periodos[i].fecha_inicio >= 0
          /\ TablaSeparada[i].nombre_area # SinUbicacion
          /\ periodos[i].nombre_area = SinUbicacion
          /\ proyectos[periodos[j].proyecto_id].proyecto_a_optimizar
          /\ periodos[j].fecha_inicio < 0
          /\ periodos[j].nombre_area # SinUbicacion
          /\ ~proyectos[periodos[k].proyecto_id].proyecto_a_optimizar
          /\ periodos[k].fecha_inicio >= 0
          /\ periodos[k].nombre_area # SinUbicacion

\* C23: for every day of the horizon and every location, the confirmed
\* length of the dictionary is the minimum of the length of the location and
\* the sum of the esloras of the confirmed periods declared there whose days
\* contain the day; so the confirmed length alone is never above the length
\* of the location.
C23_LongitudConfirmada ==
    ModeloDefinido =>
        \A d \in Range(dias) : \A loc \in Range(UbicacionesIndex) :
            /\ Get(dicc.longitudes_confirmados, <<d, loc>>)
                 = Min2(UbicacionesLongitud[loc], MetrosConfirmados(d, loc))
            /\ Get(dicc.longitudes_confirmados, <<d, loc>>) <= UbicacionesLongitud[loc]

\* two confirmed vessels on one day at a location that is shorter than
\* the two together and longer than each
C23_Testigo ==
    /\ ModeloDefinido
    /\ \E d \in Range(dias) : \E loc \in Range(UbicacionesIndex) :
          /\ MetrosConfirmados(d, loc) > UbicacionesLongitud[loc]
          /\ dicc.longitudes_confirmados[<<d, loc>>] = UbicacionesLongitud[loc]
          /\ \E i, j \in 1..Len(periodos) :
                /\ i # j
                /\ \A k \in {i, j} :
                      /\ periodos[k].proyecto_id \in SetNoOptimizar(proyectos)
                      /\ periodos[k].nombre_area = loc
                      /\ d \in Range(periodos[k].dias)
                      /\ proyectos[periodos[k].proyecto_id].eslora < UbicacionesLongitud[loc]

\* the pairs of periods of project p, one right after the other in the
\* table, that both start before day 0, have the same type and different
\* areas, and where the second starts the day after the first ends
ParesConMovimiento(p) ==
    {par \in FilasDeProyecto(p) \X FilasDeProyecto(p) :
        LET prev == periodos[par[1]]
            next == periodos[par[2]]
        IN /\ next.periodo_id = prev.periodo_id + 1
           /\ prev.fecha_inicio < 0 /\ next.fecha_inicio < 0
           /\ next.tipo_desc = prev.tipo_desc
           /\ next.nombre_area # prev.nombre_area
           /\ next.fecha_inicio = prev.fecha_fin + 1}

\* C24: for every project to optimize the movements before day 0 of the
\* dictionary are the minimum of MAX_MOVEMENTS_PER_PROJECT and the number of
\* pairs of consecutive periods that start before day 0 with the same type,
\* different areas and no day between them; the step from the last of them
\* to the period of day 0 is not counted.
C24_MovimientosAnteriores ==
    ModeloDefinido =>
        \A p \in SetAOptimizar(proyectos) :
            Get(dicc.movimientos_anteriores, p)
              = Min2(optimizador_params.MAX_MOVEMENTS_PER_PROJECT,
                     Cardinality(ParesConMovimiento(p)))

\* a project that moved before day 0 and whose last period before day 0
\* is followed by a period on day 0
C24_Testigo ==
    /\ ModeloDefinido
    /\ \E p \in SetAOptimizar(proyectos) :
          /\ ParesConMovimiento(p) # {}
          /\ dicc.movimientos_anteriores[p] = 1
          /\ \E i, j \in FilasDeProyecto(p) :
                /\ periodos[i].fecha_fin = -1 /\ periodos[j].fecha_inicio = 0
                /\ periodos[i].tipo_desc = periodos[j].tipo_desc
                /\ periodos[i].nombre_area # periodos[j].nombre_area

\* the period of the same project right before (k = -1) or right after
\* (k = 1) row i of the period table is in VARADA
VecinoEnVarada(i, k) ==
    \E j \in 1..Len(periodos) :
        /\ periodos[j].proyecto_id = periodos[i].proyecto_id
        /\ periodos[j].periodo_id = periodos[i].periodo_id + k
        /\ periodos[j].tipo_desc = VARADA

\* the periods in VARADA of the confirmed projects
VaradasConfirmadas ==
    {i \in 1..Len(periodos) : /\ periodos[i].proyecto_id \in SetNoOptimizar(proyectos)
                               /\ periodos[i].tipo_desc = VARADA}

\* the events of the confirmed projects on day d: a period in VARADA that
\* does not follow one in VARADA starts, or one that is not followed by one
\* in VARADA ends
EventosConfirmados(d) ==
    Cardinality({i \in VaradasConfirmadas :
                    periodos[i].fecha_inicio = d /\ ~VecinoEnVarada(i, -1)})
    + Cardinality({i \in VaradasConfirmadas :
                      periodos[i].fecha_fin = d /\ ~VecinoEnVarada(i, 1)})

\* C25: for every day the confirmed uses of the syncrolift of the
\* dictionary are the minimum of MAX_USES_SYNCROLIFT_PER_DAY and the number
\* of events of the confirmed projects on the day, where the day between two
\* consecutive periods in VARADA of a project is no event.
C25_UsosConfirmados ==
    ModeloDefinido =>
        \A d \in (-PastDays - 1)..(MaxDay + 1) :
            Get(dicc.usos_syncrolift_confirmados, d)
              = Min2(optimizador_params.MAX_USES_SYNCROLIFT_PER_DAY, EventosConfirmados(d))

\* a confirmed project with two consecutive periods in VARADA, the two
\* halves of a period across day 0
C25_Testigo ==
    /\ ModeloDefinido
    /\ \E i \in VaradasConfirmadas :
          /\ VecinoEnVarada(i, -1)
          /\ periodos[i].fecha_inicio = 0
          /\ ~VecinoEnVarada(i, 1)
          /\ dicc.usos_syncrolift_confirmados[periodos[i].fecha_fin] >= 1

\* the days from the first day of the first period of project p to the last
\* day of its last period, the periods before day 0 included
DuracionProyecto(p) ==
    LET filas == {periodos[i] : i \in FilasDeProyecto(p)}
        ultimo == CHOOSE r \in filas : \A q \in filas : q.fecha_fin <= r.fecha_fin
        primero == CHOOSE r \in filas : \A q \in filas : r.fecha_inicio <= q.fecha_inicio
    IN ultimo.fecha_fin - primero.fecha_inicio + 1

\* the projects to optimize with an x variable
ConVariables == {k[1][1] : k \in XKeys}

\* C26: the coefficient of every x of a project to optimize in the
\* objective is the larger of facturacion / (last day - first day + 1), over
\* all the periods of the project, and MIN_FACTURACION_DIARIA; it is never
\* below MIN_FACTURACION_DIARIA. Coefficients are compared times Escala and
\* times the duration.
C26_CoeficienteFacturacion ==
    ModeloDefinido =>
        \A p \in ConVariables :
            LET minimo == optimizador_params.MIN_FACTURACION_DIARIA
            IN /\ DuracionProyecto(p) > 0
               /\ TarifaEscalada(p) * DuracionProyecto(p)
                    = Escala * (IF proyectos[p].facturacion >= minimo * DuracionProyecto(p)
                                THEN proyectos[p].facturacion
                                ELSE minimo * DuracionProyecto(p))
               /\ TarifaEscalada(p) >= minimo * Escala

\* a project with a period before day 0 whose billing by day is above the
\* minimum, and a project whose billing by day is below it
C26_Testigo ==
    /\ ModeloDefinido
    /\ \E p, q \in ConVariables :
          /\ \E i \in FilasDeProyecto(p) : periodos[i].fecha_inicio < 0
          /\ proyectos[p].facturacion
               > optimizador_params.MIN_FACTURACION_DIARIA * DuracionProyecto(p)
          /\ proyectos[q].facturacion
               < optimizador_params.MIN_FACTURACION_DIARIA * DuracionProyecto(q)

\* C27: for every period of posicion_anterior, with no, one or more
\* candidate locations, the model has the movement variable of the period on
\* day 0, and the restriction of day 0 is built without an error.
C27_VariableDia0 ==
    ModeloDefinido =>
        /\ error # "KeyError"
        /\ \A p_1 \in DOMAIN dicc.posicion_anterior : <<p_1, 0>> \in MKeys

\* the assignment a satisfies every restriction of the model
Satisface(a) ==
    /\ Asignacion(a.x, a.y) /\ Longitud(a.x)
    /\ MovimientoMayor(a.x, a.m) /\ MovimientoMenor(a.x, a.m)
    /\ MovimientoDia0(a.x, a.m) /\ MaxMovimientos(a.m)
    /\ DefinicionSyncrolift(a.s, a.y) /\ MaxUsosSyncrolift(a.s)

\* no project to optimize is placed; m is given
SinColocar(m) ==
    [x |-> [k \in XKeys |-> 0], y |-> [p \in YKeys |-> 0], m |-> m, s |-> [k \in SKeys |-> 0]]

\* C28: for every valid input for which the model is built, the assignment
\* that places no project to optimize (y, x and s at 0) satisfies every
\* restriction for some value of m, so the model is feasible.
C28_SinColocarEsFactible ==
    (pc \in {"modelo", "resuelto", "fin"} /\ ~EntradaInvalida) =>
        \E m \in [MKeys -> {0, 1}] : Satisface(SinColocar(m))

\* the rows of the result table of period r
FilasDelPeriodo(r) ==
    {i \in 1..Len(resultados) : resultados[i].id_proyecto_reparacion = Id(r)}

\* the days from fecha_inicio to fecha_fin of row i of the result table
DiasDeFila(i) ==
    (resultados[i].fecha_inicio - FechaInicial)..(resultados[i].fecha_fin - FechaInicial)

\* C29: in the result table every period of every project to optimize has
\* at least one row, and the rows of a placed period cover pairwise
\* disjoint intervals of days whose union is the days of the period.
C29_FilasCubrenPeriodo ==
    (pc = "fin" /\ estado = "Optimal") =>
        \A r \in Range(FilasAOptimizar) :
            /\ FilasDelPeriodo(r) # {}
            /\ (sol.y[r.proyecto_id] = 1 /\ r.dias # <<>>) =>
                  /\ \A i, j \in FilasDelPeriodo(r) :
                        i # j => DiasDeFila(i) \cap DiasDeFila(j) = {}
                  /\ UNION {DiasDeFila(i) : i \in FilasDelPeriodo(r)} = Range(r.dias)

\* the uses of the syncrolift on day d that Max_usos_syncrolift charges for
\* project p when it is a project to optimize: the term s.get((p, d), 0)
UsosCargados(p, d) == Get(sol.s, <<p, d>>)

\* the uses on day d that the dictionary of the confirmed projects would
\* hold for the periods of project p, were p a confirmed project
UsosComoConfirmado(p, d) ==
    Get(crear_diccionario_usos_syncrolift_confirmados(
            optimizador_params.MAX_USES_SYNCROLIFT_PER_DAY, periodos,
            [q \in {p} |-> [proyecto_a_optimizar |-> FALSE]]), d)

\* C30: on every day of the horizon the uses of the syncrolift charged for
\* a placed project to optimize are the uses the rule of the confirmed
\* projects gives for the same periods.
C30_MismaReglaSyncrolift ==
    Resuelto =>
        \A p \in SetAOptimizar(proyectos) :
            sol.y[p] = 1 =>
                \A d \in Range(dias) : UsosCargados(p, d) = UsosComoConfirmado(p, d)

====
